---- MODULE Spec2Model ----
(***************************************************************************)
(* Model of src/adler32.c: adler32_update(s1, s2, buf, len).               *)
(*                                                                         *)
(* A caller owns the checksum state (the cells s1 and s2 point to) and a   *)
(* byte stream.  It calls adler32_update once per chunk of the stream;     *)
(* chunk k starts where chunk k-1 ended.  Having passed its chunks, the    *)
(* caller may compute the checksum of the same bytes again with a single   *)
(* call, from the state the stream started from.                           *)
(*                                                                         *)
(* The callee is modelled at the granularity of one loop iteration: one    *)
(* byte in the scalar loops, one 16-byte vector load with its sixteen lane *)
(* accumulations in the vector loops.                                      *)
(*                                                                         *)
(* uint32_t values are kept as two 16-bit limbs <<hi, lo>> (value          *)
(* hi * 2^16 + lo) because the accumulator b comes within 0.01% of 2^32,   *)
(* beyond the integer range of the model checker.  Additions wrap modulo   *)
(* 2^32 as in C and report the carry out of bit 31.                        *)
(***************************************************************************)
EXTENDS Integers, Sequences, TLC

VARIABLES
    pat,      \* content of the caller's byte stream (name of a seed in Seed)
    start,    \* the checksum state <<s1, s2>> the stream started from
    phase,    \* "chunks": the caller passes chunks; "whole": the single call
    hist,     \* lengths of the chunks passed so far, in call order
    outs,     \* the states <<s1, s2>> the chunk calls returned, in call order
    chunked,  \* in phase "whole": the state the chunk calls ended with
    kind,     \* in phase "whole": what the chunking was (see Kind)
    s1, s2,   \* the caller's checksum state, the cells s1 and s2 point to
    base,     \* offset in the stream of the current call's buf
    len,      \* the current call's len
    entry,    \* <<s1, s2>> at the entry of the current call
    pc,       \* position of the callee; "idle" between calls
    a, b,     \* locals a, b (uint32_t)
    block,    \* local block
    i,        \* local n of the scalar loop, local i of the vector loops
    rd,       \* number of buffer bytes read by the current call
    seq,      \* TRUE while every read so far was of the next unread index
    oob,      \* TRUE once the current call has read an index >= len
    ovf,      \* TRUE once an addition of the current call carried out of 32 bits
    red,      \* number of modular reductions of the current call
    wr,       \* number of stores to the cells s1, s2 made by the current call
    ref       \* the textbook recurrence over the rd bytes consumed so far

vars == <<pat, start, phase, hist, outs, chunked, kind, s1, s2, base, len, entry, pc,
          a, b, block, i, rd, seq, oob, ovf, red, wr, ref>>

caller == <<pat, start, phase, hist, outs, chunked, kind, base, len, entry>>

----------------------------------------------------------------------------
(* uint32_t arithmetic on limbs *)

W == 2^16

U32(n) == <<n \div W, n % W>>

\* x + y before wrapping: <<hi, lo>> with lo < 2^16 and hi possibly >= 2^16.
Wide(hi, lo) == <<hi + (lo \div W), lo % W>>

Sum32(x, y) == Wide(x[1] + y[1], x[2] + y[2])

\* The uint32_t a sum wraps to, and whether it carried out of bit 31.
Wrap32(s) == <<s[1] % W, s[2]>>

Carried(s) == s[1] >= W

ADLER32_PRIME == 65521

\* x % ADLER32_PRIME for a uint32_t x: 2^16 = ADLER32_PRIME + 15, so
\* hi * 2^16 + lo and hi * 15 + lo leave the same remainder.
Mod32(x) == <<0, (x[1] * (W - ADLER32_PRIME) + x[2]) % ADLER32_PRIME>>

\* A block one 16-byte group longer, and one 16-byte group shorter.
BLOCK_SIZE_Longer == 5552 + 16

BLOCK_SIZE_Shorter == 5552 - 16

BLOCK_SIZE == 5552

----------------------------------------------------------------------------
(* The buffer *)

Seed ==
    [ ff   |-> <<255>>,
      abc  |-> <<97, 98, 99>>,
      wiki |-> <<87, 105, 107, 105, 112, 101, 100, 105, 97>> ]

\* Byte k (from 0) of the stream: the seed repeated.
Byte(p, k) == Seed[p][(k % Len(Seed[p])) + 1]

\* What a read of buf[idx] yields in a call with buf at stream offset off
\* and length n.  A read past the end of the buffer is undefined; it yields
\* junk, any value the caller of Buf chooses.
Buf(off, n, idx, junk) == IF idx < n THEN Byte(pat, off + idx) ELSE junk

Junk == {0, 255}

\* The values a read of cnt bytes at idx can see that the buffer does not fix:
\* none matter when the read stays inside the buffer.
JunkAt(n, idx, cnt) == IF idx + cnt <= n THEN {0} ELSE Junk

\* vld1q_u8(buf + idx): sixteen bytes starting at idx.
vld1q_u8(off, n, idx, junk) == [k \in 0..15 |-> Buf(off, n, idx + k, junk)]

vgetq_lane_u8(v, k) == v[k]

----------------------------------------------------------------------------
(* Accumulation *)

\* The two statements in the other order: b += a; a += x;
Accum_BFirst(acc, x) ==
    LET sa == Sum32(acc.a, <<0, x>>)
        sb == Sum32(acc.b, acc.a)
    IN  [ovf |-> acc.ovf \/ Carried(sa) \/ Carried(sb),
         a   |-> Wrap32(sa),
         b   |-> Wrap32(sb)]

\* a += x; b += a;   with sa and sb the two sums before they wrap
Accum(acc, x) ==
    LET sa == Sum32(acc.a, <<0, x>>)
        sb == Sum32(acc.b, Wrap32(sa))
    IN  [ovf |-> acc.ovf \/ Carried(sa) \/ Carried(sb),
         a   |-> Wrap32(sa),
         b   |-> Wrap32(sb)]

\* The scalar step adding the old a to b.
ScalarStep_OldA(acc, x) ==
    LET sa == Sum32(acc.a, <<0, x>>)
        sb == Sum32(acc.b, acc.a)
    IN  [ovf |-> acc.ovf \/ Carried(sa) \/ Carried(sb),
         a   |-> Mod32(Wrap32(sa)),
         b   |-> Mod32(Wrap32(sb))]

\* a = (a + x) % ADLER32_PRIME; b = (b + a) % ADLER32_PRIME;
ScalarStep(acc, x) ==
    LET sa == Sum32(acc.a, <<0, x>>)
        sb == Sum32(acc.b, Mod32(Wrap32(sa)))
    IN  [ovf |-> acc.ovf \/ Carried(sa) \/ Carried(sb),
         a   |-> Mod32(Wrap32(sa)),
         b   |-> Mod32(Wrap32(sb))]

\* The reduction of a alone.
Reduce_OnlyA(acc) == [ovf |-> acc.ovf, a |-> Mod32(acc.a), b |-> acc.b]

\* a %= ADLER32_PRIME; b %= ADLER32_PRIME;
Reduce(acc) == [ovf |-> acc.ovf, a |-> Mod32(acc.a), b |-> Mod32(acc.b)]

\* The sixteen unrolled lane accumulations on one loaded vector, lane 0 first.
Group16(acc, v) ==
    Accum(Accum(Accum(Accum(Accum(Accum(Accum(Accum(Accum(Accum(Accum(Accum(Accum(Accum(Accum(Accum(acc,
        vgetq_lane_u8(v, 0)),
        vgetq_lane_u8(v, 1)),
        vgetq_lane_u8(v, 2)),
        vgetq_lane_u8(v, 3)),
        vgetq_lane_u8(v, 4)),
        vgetq_lane_u8(v, 5)),
        vgetq_lane_u8(v, 6)),
        vgetq_lane_u8(v, 7)),
        vgetq_lane_u8(v, 8)),
        vgetq_lane_u8(v, 9)),
        vgetq_lane_u8(v, 10)),
        vgetq_lane_u8(v, 11)),
        vgetq_lane_u8(v, 12)),
        vgetq_lane_u8(v, 13)),
        vgetq_lane_u8(v, 14)),
        vgetq_lane_u8(v, 15))

----------------------------------------------------------------------------
(* Control of adler32_update *)

\* if (len < 16): the scalar path
ShortCond(n) == n < 16

\* size_t blocks = len / BLOCK_SIZE;
blocks(n) == n \div BLOCK_SIZE

\* size_t remaining = len % BLOCK_SIZE;
remaining(n) == n % BLOCK_SIZE

\* Every block read from the start of the buffer.
block_data_Start(blk) == 0

\* const unsigned char* block_data = buf + (block * BLOCK_SIZE);
block_data(blk) == blk * BLOCK_SIZE

\* The remaining bytes read from the start of the buffer.
remaining_data_Start(n) == 0

\* const unsigned char* remaining_data = buf + (blocks * BLOCK_SIZE);
remaining_data(n) == blocks(n) * BLOCK_SIZE

\* for (size_t i = 0; i < BLOCK_SIZE; i += 16)
InnerCond(ii) == ii < BLOCK_SIZE

\* A vector loop that runs while any byte remains.
RemCond_AnyLeft(ii, n) == ii < remaining(n)

\* for (; i + 16 <= remaining; i += 16)
RemCond(ii, n) == ii + 16 <= remaining(n)

\* for (; i < remaining; ++i)
TailCond(ii, n) == ii < remaining(n)

----------------------------------------------------------------------------
(* Loop iterations.  A loop state ls holds the accumulators acc, the loop
   index i, and the record of the buffer reads made so far: rd bytes read,
   seq while each read was of the next unread index, oob once a read went
   past the end of the buffer; red counts the modular reductions. *)

\* A read of cnt bytes at buffer index idx, in a buffer of n bytes.
Read(ls, n, idx, cnt) ==
    [ls EXCEPT !.rd = @ + cnt, !.seq = @ /\ idx = ls.rd, !.oob = @ \/ idx + cnt > n]

\* a = (a + buf[n]) % ADLER32_PRIME; b = (b + a) % ADLER32_PRIME;  n++
ShortIter(ls, off, n, junk) ==
    [Read(ls, n, ls.i, 1) EXCEPT
        !.acc = ScalarStep(ls.acc, Buf(off, n, ls.i, junk)),
        !.red = @ + 1,
        !.i = @ + 1]

\* v_data = vld1q_u8(block_data + i); the sixteen accumulations;  i += 16
BlockIter(ls, off, n, blk, junk) ==
    [Read(ls, n, block_data(blk) + ls.i, 16) EXCEPT
        !.acc = Group16(ls.acc, vld1q_u8(off, n, block_data(blk) + ls.i, junk)),
        !.i = @ + 16]

\* a %= ADLER32_PRIME; b %= ADLER32_PRIME;   (after a block, and at the end)
Modulo(ls) == [ls EXCEPT !.acc = Reduce(ls.acc), !.red = @ + 1]

\* v_data = vld1q_u8(remaining_data + i); the sixteen accumulations;  i += 16
RemIter(ls, off, n, junk) ==
    [Read(ls, n, remaining_data(n) + ls.i, 16) EXCEPT
        !.acc = Group16(ls.acc, vld1q_u8(off, n, remaining_data(n) + ls.i, junk)),
        !.i = @ + 16]

\* a += remaining_data[i]; b += a;  ++i
TailIter(ls, off, n, junk) ==
    [Read(ls, n, remaining_data(n) + ls.i, 1) EXCEPT
        !.acc = Accum(ls.acc, Buf(off, n, remaining_data(n) + ls.i, junk)),
        !.i = @ + 1]

\* uint32_t a = *s1; uint32_t b = *s2;
Entry(st) ==
    [acc |-> [ovf |-> FALSE, a |-> st[1], b |-> st[2]],
     i |-> 0, rd |-> 0, seq |-> TRUE, oob |-> FALSE, red |-> 0]

\* An empty buffer leaving the state as it was.
EmptyResult_Unchanged(st) == st

\* *s1 = 1; *s2 = 0;   whatever the state st at entry
EmptyResult(st) == <<U32(1), U32(0)>>

\* *s1 = a; *s2 = b;
Stored(ls) == <<ls.acc.a, ls.acc.b>>

----------------------------------------------------------------------------
(* The textbook recurrence s1 = (s1 + x) mod 65521; s2 = (s2 + s1) mod 65521
   on integers, kept beside the call as its reference.  r is <<s1, s2>>. *)

RefStep(r, x) == <<(r[1] + x) % 65521, (r[2] + ((r[1] + x) % 65521)) % 65521>>

\* The recurrence over the cnt stream bytes from offset k.
RECURSIVE RefRun(_, _, _)
RefRun(r, k, cnt) ==
    IF cnt = 0 THEN r ELSE RefStep(RefRun(r, k, cnt - 1), Byte(pat, k + cnt - 1))

\* A valid state as a pair of integers.
RefOf(st) == <<st[1][2], st[2][2]>>

----------------------------------------------------------------------------
(* Inputs *)

MaxCalls == 3

\* Lengths of the caller's streams, by content.
FfSize == 5600

AbcSize == 12

WikiSize == 11130

Size == [ff |-> FfSize, abc |-> AbcSize, wiki |-> WikiSize]

\* Chunk lengths the caller passes: empty; "abc"; "Wikipedia"; the shortest
\* buffer of the block path; one full block; two blocks and 7 bytes.
Lens == {0, 3, 9, 16, BLOCK_SIZE, 2 * BLOCK_SIZE + 7}

\* Streams and the checksum state each starts from: s1 = c[2] and
\* s2 = c[3], both below ADLER32_PRIME.
InitCases ==
    {<<"abc", 1, 0>>, <<"wiki", 1, 0>>, <<"ff", ADLER32_PRIME - 1, ADLER32_PRIME - 1>>}

----------------------------------------------------------------------------
(* The state machine *)

\* The callee's loop state.
LS == [acc |-> [ovf |-> ovf, a |-> a, b |-> b],
       i |-> i, rd |-> rd, seq |-> seq, oob |-> oob, red |-> red]

\* The callee's loop state becomes ls; the reference follows the bytes
\* the iteration consumed.
Becomes(ls) ==
    /\ a' = ls.acc.a
    /\ b' = ls.acc.b
    /\ ovf' = ls.acc.ovf
    /\ i' = ls.i
    /\ rd' = ls.rd
    /\ seq' = ls.seq
    /\ oob' = ls.oob
    /\ red' = ls.red
    /\ ref' = RefRun(ref, base + rd, ls.rd - rd)

Init ==
    /\ \E c \in InitCases :
          /\ pat = c[1]
          /\ s1 = U32(c[2])
          /\ s2 = U32(c[3])
    /\ start = <<s1, s2>>
    /\ entry = <<s1, s2>>
    /\ phase = "chunks"
    /\ hist = <<>>
    /\ outs = <<>>
    /\ chunked = <<>>
    /\ kind = "none"
    /\ base = 0
    /\ len = 0
    /\ pc = "idle"
    /\ a = U32(0)
    /\ b = U32(0)
    /\ block = 0
    /\ i = 0
    /\ rd = 0
    /\ seq = TRUE
    /\ oob = FALSE
    /\ ovf = FALSE
    /\ red = 0
    /\ wr = 0
    /\ ref = RefOf(<<s1, s2>>)

\* The entry of a call on the n bytes at stream offset off, the cells
\* holding st:   uint32_t a = *s1; uint32_t b = *s2;
Enter(st, off, n) ==
    /\ base' = off
    /\ len' = n
    /\ entry' = st
    /\ a' = Entry(st).acc.a
    /\ b' = Entry(st).acc.b
    /\ ovf' = FALSE
    /\ i' = 0
    /\ rd' = 0
    /\ seq' = TRUE
    /\ oob' = FALSE
    /\ red' = 0
    /\ ref' = RefOf(st)
    /\ pc' = "entry"
    /\ block' = 0
    /\ wr' = 0

\* The caller passes the next n bytes of its stream.
Call(n) ==
    /\ pc = "idle"
    /\ phase = "chunks"
    /\ Len(hist) < MaxCalls
    /\ base + len + n <= Size[pat]
    /\ hist' = Append(hist, n)
    /\ Enter(<<s1, s2>>, base + len, n)
    /\ UNCHANGED <<pat, start, phase, outs, chunked, kind, s1, s2>>

Identity == <<U32(1), U32(0)>>

\* Every chunk passed was non-empty.
NonEmpty == \A k \in 1..Len(hist) : hist[k] # 0

\* From the identity state the caller passed a non-empty chunk that left
\* another state than the identity, then an empty chunk, then a third chunk.
ResetForm ==
    /\ start = Identity
    /\ Len(hist) = 3
    /\ Len(outs) = 3
    /\ hist[1] # 0
    /\ outs[1] # Identity
    /\ hist[2] = 0

\* What the single call has to remember of the chunking.
Kind == IF NonEmpty THEN "split" ELSE IF ResetForm THEN "reset" ELSE "other"

\* Having passed two chunks or more, the caller resets its state to the one
\* the stream started from and passes all the bytes again in a single call.
Whole ==
    /\ pc = "idle"
    /\ phase = "chunks"
    /\ Len(hist) >= 2
    /\ phase' = "whole"
    /\ chunked' = <<s1, s2>>
    /\ kind' = Kind
    /\ hist' = <<>>
    /\ outs' = <<>>
    /\ s1' = start[1]
    /\ s2' = start[2]
    /\ Enter(start, 0, base + len)
    /\ UNCHANGED <<pat, start>>

\* The call returns having stored st to the cells.
Return(st) ==
    /\ s1' = st[1]
    /\ s2' = st[2]
    /\ wr' = wr + 1
    /\ pc' = "idle"
    /\ outs' = IF phase = "chunks" THEN Append(outs, st) ELSE outs
    /\ UNCHANGED <<pat, start, phase, hist, chunked, kind, base, len, entry, block>>

\* if (len == 0) { *s1 = 1; *s2 = 0; return; }
EmptyReturn ==
    /\ pc = "entry"
    /\ len = 0
    /\ Return(EmptyResult(entry))
    /\ UNCHANGED <<a, b, i, rd, seq, oob, ovf, red, ref>>

\* if (len < 16) { for (size_t n = 0; ...
EnterShort ==
    /\ pc = "entry"
    /\ len # 0
    /\ ShortCond(len)
    /\ pc' = "short"
    /\ i' = 0
    /\ UNCHANGED <<caller, s1, s2, a, b, block, rd, seq, oob, ovf, red, wr, ref>>

\* One iteration of the scalar loop.
ShortStep ==
    /\ pc = "short"
    /\ i < len
    /\ \E junk \in JunkAt(len, i, 1) : Becomes(ShortIter(LS, base, len, junk))
    /\ UNCHANGED <<caller, s1, s2, pc, block, wr>>

\* *s1 = a; *s2 = b; return;   (end of the scalar path)
ShortReturn ==
    /\ pc = "short"
    /\ ~(i < len)
    /\ Return(Stored(LS))
    /\ UNCHANGED <<a, b, i, rd, seq, oob, ovf, red, ref>>

\* len >= 16: for (size_t block = 0; ...
EnterLong ==
    /\ pc = "entry"
    /\ len # 0
    /\ ~ShortCond(len)
    /\ pc' = "block"
    /\ block' = 0
    /\ i' = 0
    /\ UNCHANGED <<caller, s1, s2, a, b, rd, seq, oob, ovf, red, wr, ref>>

\* One iteration of the inner loop of a full block: a vector load and its
\* sixteen lane accumulations.
BlockGroup ==
    /\ pc = "block"
    /\ block < blocks(len)
    /\ InnerCond(i)
    /\ \E junk \in JunkAt(len, block_data(block) + i, 16) :
          Becomes(BlockIter(LS, base, len, block, junk))
    /\ UNCHANGED <<caller, s1, s2, pc, block, wr>>

\* a %= ADLER32_PRIME; b %= ADLER32_PRIME;   (end of a full block);  ++block
BlockReduce ==
    /\ pc = "block"
    /\ block < blocks(len)
    /\ ~InnerCond(i)
    /\ Becomes([Modulo(LS) EXCEPT !.i = 0])
    /\ block' = block + 1
    /\ UNCHANGED <<caller, s1, s2, pc, wr>>

\* The block loop ends; size_t i = 0;
BlocksExit ==
    /\ pc = "block"
    /\ ~(block < blocks(len))
    /\ pc' = "rem"
    /\ i' = 0
    /\ UNCHANGED <<caller, s1, s2, a, b, block, rd, seq, oob, ovf, red, wr, ref>>

\* One iteration of the 16-byte loop over the remaining bytes.
RemGroup ==
    /\ pc = "rem"
    /\ RemCond(i, len)
    /\ \E junk \in JunkAt(len, remaining_data(len) + i, 16) :
          Becomes(RemIter(LS, base, len, junk))
    /\ UNCHANGED <<caller, s1, s2, pc, block, wr>>

\* The 16-byte loop ends; the byte loop starts with the same i.
RemExit ==
    /\ pc = "rem"
    /\ ~RemCond(i, len)
    /\ pc' = "tail"
    /\ UNCHANGED <<caller, s1, s2, a, b, block, i, rd, seq, oob, ovf, red, wr, ref>>

\* One iteration of the byte loop over the final bytes.
TailByte ==
    /\ pc = "tail"
    /\ TailCond(i, len)
    /\ \E junk \in JunkAt(len, remaining_data(len) + i, 1) :
          Becomes(TailIter(LS, base, len, junk))
    /\ UNCHANGED <<caller, s1, s2, pc, block, wr>>

\* a %= ADLER32_PRIME; b %= ADLER32_PRIME; *s1 = a; *s2 = b;
FinalReturn ==
    /\ pc = "tail"
    /\ ~TailCond(i, len)
    /\ Becomes(Modulo(LS))
    /\ Return(Stored(Modulo(LS)))

Next ==
    \/ \E n \in Lens : Call(n)
    \/ Whole
    \/ EmptyReturn
    \/ EnterShort
    \/ ShortStep
    \/ ShortReturn
    \/ EnterLong
    \/ BlockGroup
    \/ BlockReduce
    \/ BlocksExit
    \/ RemGroup
    \/ RemExit
    \/ TailByte
    \/ FinalReturn

Spec == Init /\ [][Next]_vars

----------------------------------------------------------------------------
(* Properties *)

\* A call has returned; base, len, entry and the loop state are its.
Returned == pc = "idle" /\ (hist # <<>> \/ phase = "whole")

InRange(x) == x[1] = 0 /\ x[2] < 65521

Valid(st) == InRange(st[1]) /\ InRange(st[2])

\* The reference as a state of two uint32_t.
RefState == <<U32(ref[1]), U32(ref[2])>>

\* The state the call returned is the textbook recurrence over all len bytes.
MatchesScalar == <<s1, s2>> = RefState /\ rd = len

\* The largest valid state, and the stream of bytes 255 from it.
Worst == <<U32(65520), U32(65520)>>

\* C1 as stated: for every buffer length (zero included), every content and
\* every valid starting state, adler32_update returns what the scalar
\* recurrence gives over the entire buffer.
C1_AllLengths == (Returned /\ Valid(entry)) => MatchesScalar

\* C1 as amended: for every buffer of length >= 1, every content and every
\* valid starting state, adler32_update returns what the scalar recurrence
\* gives over the entire buffer, in both regimes (1 <= len < 16, len >= 16);
\* for len = 0 it returns (1, 0), which is what the recurrence gives only
\* when the starting state is (1, 0).
C1_NonEmptyMatchesScalar ==
    (Returned /\ Valid(entry)) =>
        IF len = 0 THEN <<s1, s2>> = Identity ELSE MatchesScalar

C1_Witness ==
    /\ Returned
    /\ phase = "chunks"
    /\ len = 2 * 5552 + 7
    /\ Valid(entry)
    /\ entry # Identity

\* C2: chunking invariance.  From (1, 0), one call per chunk of a split of
\* B into two or more non-empty chunks gives the state a single call on B
\* gives, whatever the regimes of the chunks and of B.
C2_ChunkingInvariance ==
    (phase = "whole" /\ pc = "idle" /\ kind = "split" /\ start = Identity) =>
        <<s1, s2>> = chunked

\* A short chunk, a chunk of one vector, a chunk of one block; the single
\* call meets the block boundary inside the third chunk's bytes.
C2_Witness ==
    /\ phase = "whole"
    /\ pc = "idle"
    /\ kind = "split"
    /\ start = Identity
    /\ len = 9 + 16 + 5552

\* C3: range invariant.  Whenever a call has returned, s1 and s2 are below
\* 65521.
C3_Range == Returned => (InRange(s1) /\ InRange(s2))

C3_Witness == Returned /\ start = Identity /\ len >= 5552 /\ red >= 2

\* C4: empty reset.  A call with len = 0 returns (1, 0) whatever valid state
\* it was given.
C4_EmptyReset == (Returned /\ len = 0) => <<s1, s2>> = Identity

C4_Witness == Returned /\ len = 0 /\ Valid(entry) /\ entry # Identity

\* (s2 << 16) | s1 as a uint32_t, for s1 below 2^16.
Packed(x1, x2) == <<x2[2], x1[2]>>

\* The first call of a stream that starts from (1, 0) has returned.
FirstFromIdentity(p, n) ==
    /\ Returned
    /\ phase = "chunks"
    /\ start = Identity
    /\ pat = p
    /\ hist = <<n>>

\* C5: known vectors from (1, 0): the empty buffer packs to 0x00000001,
\* "abc" to 0x024d0127, "Wikipedia" to 0x11E60398.
C5_KnownVectors ==
    /\ FirstFromIdentity(pat, 0) => (s1[1] = 0 /\ Packed(s1, s2) = <<0, 1>>)
    /\ FirstFromIdentity("abc", 3) => (s1[1] = 0 /\ Packed(s1, s2) = <<589, 295>>)
    /\ FirstFromIdentity("wiki", 9) => (s1[1] = 0 /\ Packed(s1, s2) = <<4582, 920>>)

C5_Witness == FirstFromIdentity("wiki", 9)

\* C6: an empty chunk mid-stream breaks the running checksum.  After
\* update B1, update empty, update B2 from (1, 0), with B1 non-empty and
\* leaving another state than (1, 0): the third call was given (1, 0), so
\* the sequence returns what the single update of B2 from (1, 0) returns;
\* and that differs from what the single call on B1 ++ B2 returns.
C6_EmptyChunkBreaks ==
    /\ (phase = "chunks" /\ pc = "idle" /\ ResetForm) =>
          (entry = Identity /\ base = hist[1] /\ len = hist[3] /\ <<s1, s2>> = outs[3])
    /\ (phase = "whole" /\ pc = "idle" /\ kind = "reset") => <<s1, s2>> # chunked

C6_Witness == phase = "whole" /\ pc = "idle" /\ kind = "reset" /\ len = 9 + 5552

\* C7: deferred reduction is equivalent to per-byte reduction.  A call
\* with len >= 16 from a valid state reduces once after each full block of
\* 5552 bytes and once at the end, and returns what the scalar recurrence
\* gives; so it does when len is a multiple of the block size, and when len
\* is several blocks and fewer than 16 bytes.
C7_DeferredReduction ==
    (Returned /\ Valid(entry) /\ len >= 16) =>
        (MatchesScalar /\ red = (len \div 5552) + 1)

C7_Witness == Returned /\ len = 2 * 5552 + 7 /\ pat = "wiki" /\ red = 3

\* C8: no accumulator overflow before reduction.  In a call with len >= 16
\* from a valid state no addition to a or b carries out of 32 bits, bytes of
\* 255 included.
C8_NoOverflow == (Valid(entry) /\ len >= 16) => ~ovf

C8_Witness == Returned /\ pat = "ff" /\ entry = Worst /\ len >= 5552 /\ ~ovf

\* The first block of the worst case is accumulated and not yet reduced.
WorstBlockEnd ==
    /\ pat = "ff"
    /\ entry = Worst
    /\ pc = "block"
    /\ block = 0
    /\ block < blocks(len)
    /\ ~InnerCond(i)

\* a + 255, the sum before it wraps: a after one more byte.
OneMoreA == Sum32(a, <<0, 255>>)

\* b after one more byte.
OneMoreB == Sum32(b, Wrap32(OneMoreA))

C10_Access ==
    /\ seq
    /\ ~oob
    /\ rd <= len
    /\ Returned => (rd = len /\ wr = 1)
    /\ pc # "idle" => (wr = 0 /\ <<s1, s2>> = entry)

\* C10: buffer access safety and frame.  A call reads only indices below
\* len, the 16-byte loads included, each index once and in increasing
\* order (none when len = 0); it stores to the cells s1 and s2 once, when it
\* returns; and the buffer's content never changes.
C10_AccessAndFrame == [](C10_Access) /\ [][pat' = pat]_vars

C10_Witness == Returned /\ rd = 2 * 5552 + 7 /\ wr = 1 /\ seq /\ ~oob

====
